---- MODULE Spec2Model ----
(***************************************************************************)
(* Model of streamlit_app.py (MMPB quiz): the CSV loader with its image    *)
(* path validation, and the script-rerun session controller.               *)
(*                                                                         *)
(* A string is a sequence of tokens.  The separators "/" and "\\" are      *)
(* tokens of their own; every other token is an indivisible piece of a     *)
(* file name ("test", "a", "..", "data", "srv", "app").                    *)
(***************************************************************************)
EXTENDS Integers, Sequences, FiniteSets, TLC

VARIABLES
    cwd,            \* os.getcwd(): the process working directory (a string)
    pc,             \* "load": inside load_questions; "run": main() renders;
                    \* "failed": load_questions raised
    csv,            \* the list `records` of load_questions, where the file is given
    nread,          \* rows of the CSV consumed so far by the loop of load_questions
    valid,          \* the list `valid` of load_questions
    branch,         \* exit taken by the last iteration of the loop
    qs,             \* the loaded question list of main()
    session_state,  \* st.session_state: a mapping key -> value
    view,           \* what the page shows when the script run has ended
    ev              \* the widget event that triggered the last script run

vars == <<cwd, pc, csv, nread, valid, branch, qs, session_state, view, ev>>

\* ------------------------------------------------------------------ bounds
MaxSegs == 3        \* segments of a raw image_path
MaxRows == 2        \* rows of the CSV read by the loader specification
MaxQ    == 2        \* rows of the CSV in the session specification

\* ------------------------------------------------------------ string tools
sep == "/"

StartsWith(s, p) == Len(p) <= Len(s) /\ SubSeq(s, 1, Len(p)) = p

Contains(s, sub) ==
    \E i \in 1..(Len(s) - Len(sub) + 1) : SubSeq(s, i, i + Len(sub) - 1) = sub

\* str.replace(old, new) for one-token old and new
Replace(s, old, new) == [i \in 1..Len(s) |-> IF s[i] = old THEN new ELSE s[i]]

RECURSIVE LStrip(_, _)
LStrip(s, ch) ==
    IF s # <<>> /\ Head(s) = ch THEN LStrip(Tail(s), ch) ELSE s

\* str.split("/"): the components between the separators, empty ones included
RECURSIVE Split(_)
Split(s) ==
    IF \A i \in 1..Len(s) : s[i] # sep
    THEN <<s>>
    ELSE LET i == CHOOSE k \in 1..Len(s) :
                      s[k] = sep /\ \A j \in 1..(k - 1) : s[j] # sep
         IN  <<SubSeq(s, 1, i - 1)>> \o Split(SubSeq(s, i + 1, Len(s)))

\* "/".join(comps)
RECURSIVE JoinComps(_)
JoinComps(comps) ==
    IF comps = <<>> THEN <<>>
    ELSE IF Len(comps) = 1 THEN comps[1]
    ELSE comps[1] \o <<sep>> \o JoinComps(Tail(comps))

\* os.path.join(a, b)
Join(a, b) ==
    IF b # <<>> /\ Head(b) = sep THEN b
    ELSE IF a = <<>> \/ a[Len(a)] = sep THEN a \o b
    ELSE a \o <<sep>> \o b

\* posixpath.normpath of an absolute path with one leading slash
RECURSIVE NormComps(_, _)
NormComps(comps, acc) ==
    IF comps = <<>> THEN acc
    ELSE LET c == Head(comps) IN
         IF c = <<>> THEN NormComps(Tail(comps), acc)
         ELSE IF c = <<"..">>
              THEN NormComps(Tail(comps),
                             IF acc = <<>> THEN acc ELSE SubSeq(acc, 1, Len(acc) - 1))
              ELSE NormComps(Tail(comps), Append(acc, c))

normpath(path) == <<sep>> \o JoinComps(NormComps(Split(path), <<>>))

\* os.path.abspath(path) in working directory c
abspath(c, path) == normpath(Join(c, path))

\* ------------------------------------------------------------- file system
\* A location is the list of the components of an absolute path.
Loc(names) == [i \in 1..Len(names) |-> <<names[i]>>]

CwdLoc(c) == NormComps(Split(c), <<>>)

\* regular files of the machine
Files ==
    { Loc(<<"srv", "data", "test", "a">>),
      Loc(<<"srv", "data", "test", "test", "a">>),
      Loc(<<"srv", "data", "a">>),
      Loc(<<"srv", "test", "a">>),
      Loc(<<"test", "app", "data", "a">>),
      Loc(<<"test", "app", "data", "test", "a">>) }

\* directories: the root and every proper ancestor of a regular file
Dirs == UNION { { SubSeq(f, 1, n) : n \in 0..(Len(f) - 1) } : f \in Files }

\* the kernel's path walk: every step but the last goes through a directory
RECURSIVE Walk(_, _)
Walk(loc, comps) ==
    IF comps = <<>> THEN [ok |-> TRUE, at |-> loc]
    ELSE IF loc \notin Dirs THEN [ok |-> FALSE, at |-> loc]
    ELSE LET x == Head(comps) IN
         IF x = <<>> THEN Walk(loc, Tail(comps))
         ELSE IF x = <<"..">>
              THEN Walk(IF loc = <<>> THEN loc ELSE SubSeq(loc, 1, Len(loc) - 1),
                        Tail(comps))
              ELSE IF Append(loc, x) \in Files \cup Dirs
                   THEN Walk(Append(loc, x), Tail(comps))
                   ELSE [ok |-> FALSE, at |-> loc]

Lookup(c, path) ==
    Walk(IF path # <<>> /\ Head(path) = sep THEN <<>> ELSE CwdLoc(c), Split(path))

\* os.path.exists(path): true of regular files and of directories alike
exists(c, path) == path # <<>> /\ Lookup(c, path).ok

\* Image.open(path) succeeds only on a regular file
IsFile(c, path) == exists(c, path) /\ Lookup(c, path).at \in Files

\* ------------------------------------------------------------------ loader
data_dir == <<"data">>

resolve_path(raw_path, dir) ==
    LET rel       == LStrip(Replace(raw_path, "\\", sep), sep)
        candidate == Join(dir, rel)
    IN  candidate

Put(r, k, v) == [x \in DOMAIN r \cup {k} |-> IF x = k THEN v ELSE r[x]]

Get(r, k, default) == IF k \in DOMAIN r THEN r[k] ELSE default

\* the loop body without the test of line 30
Iteration_NoContainment(r, c) ==
    LET img     == resolve_path(r.image_path, data_dir)
        abs_img == abspath(c, img)
    IN  IF ~Contains(abs_img, <<sep, "test", sep>>)
        THEN [branch |-> "notest", rows |-> <<>>]
        ELSE IF exists(c, img)
        THEN [branch |-> "kept", rows |-> <<Put(r, "_img", img)>>]
        ELSE [branch |-> "missing", rows |-> <<>>]

\* one iteration of the loop over the records: the exit taken and the rows kept
Iteration(r, c) ==
    LET img      == resolve_path(r.image_path, data_dir)
        abs_data == abspath(c, data_dir)
        abs_img  == abspath(c, img)
    IN  IF ~StartsWith(abs_img, abs_data \o <<sep>>)
        THEN [branch |-> "outside", rows |-> <<>>]
        ELSE IF ~Contains(abs_img, <<sep, "test", sep>>)
        THEN [branch |-> "notest", rows |-> <<>>]
        ELSE IF exists(c, img)
        THEN [branch |-> "kept", rows |-> <<Put(r, "_img", img)>>]
        ELSE [branch |-> "missing", rows |-> <<>>]

mapping(label) ==
    IF label = "overconcept" THEN "appropriateness"
    ELSE IF label = "inconsistency" THEN "coherency"
    ELSE label

InMapping(r, k) == k \in DOMAIN r /\ r[k] \in {"overconcept", "inconsistency"}

\* a renaming that forgets the attribute column
Rename_OnlyL2(r) ==
    IF InMapping(r, "l2-category")
    THEN Put(r, "l2-category", mapping(r["l2-category"])) ELSE r

Rename(r) ==
    LET r1 == IF InMapping(r, "l2-category")
              THEN Put(r, "l2-category", mapping(r["l2-category"])) ELSE r
    IN  IF InMapping(r1, "attribute")
        THEN Put(r1, "attribute", mapping(r1["attribute"])) ELSE r1

RECURSIVE ValidRows(_, _)
ValidRows(records, c) ==
    IF records = <<>> THEN <<>>
    ELSE Iteration(Head(records), c).rows \o ValidRows(Tail(records), c)

load_questions(records, c) ==
    LET v == ValidRows(records, c) IN [i \in 1..Len(v) |-> Rename(v[i])]

\* ------------------------------------------------------------------ inputs
Cwds == { <<sep, "srv">>, <<sep, "test", sep, "app">> }

Segs == { <<"..">>, <<"test">>, <<"a">> }

SegLists == UNION { [1..n -> Segs] : n \in 1..MaxSegs }

RECURSIVE Interleave(_, _)
Interleave(segs, s) ==
    IF Len(segs) = 1 THEN segs[1]
    ELSE segs[1] \o <<s>> \o Interleave(Tail(segs), s)

\* raw image_path cells: empty, a/b/c, /a/b/c and a\b\c
RawPaths ==
    {<<>>} \cup { Interleave(segs, sep) : segs \in SegLists }
           \cup { <<sep>> \o Interleave(segs, sep) : segs \in SegLists }
           \cup { Interleave(segs, "\\") : segs \in SegLists }

GoodPath == <<"test", sep, "a">>
BadPath  == <<"a">>

Q(p, ans, a, b, c, d, cat, attr, l2) ==
    Put([image_path |-> p, answer |-> ans, A |-> a, B |-> b, C |-> c, D |-> d,
         category |-> cat, attribute |-> attr], "l2-category", l2)

\* rows of the loader specification: every raw path, one question body
LoaderRows ==
    { Q(p, "A", "cat", "dog", "", "", "color", "overconcept", "x") : p \in RawPaths }

\* rows of a CSV that has the columns A..D and the three label columns
OptionRows ==
    { Q(GoodPath, "A",   "cat", "dog", "", "",  "color", "overconcept", "inconsistency"),
      Q(GoodPath, "dog", "cat", "dog", "", "",  "shape", "x", ""),
      Q(GoodPath, "B",   "B",   "cat", "", "",  "color", "", "overconcept"),
      Q(GoodPath, "Yes", "",    "",    "", "",  "",      "x", "x"),
      Q(GoodPath, "A",   "",    "dog", "A", "", "shape", "inconsistency", ""),
      Q(BadPath,  "A",   "cat", "dog", "", "",  "color", "x", "x") }

\* rows of a CSV without the columns A..D, category, attribute, l2-category
BareRows ==
    { [image_path |-> GoodPath, answer |-> "No"],
      [image_path |-> GoodPath, answer |-> "A"],
      [image_path |-> BadPath,  answer |-> "Yes"] }

BSeq(S, n) == UNION { [1..k -> S] : k \in 0..n }

Csvs == BSeq(OptionRows, MaxQ) \cup BSeq(BareRows, MaxQ)

\* ----------------------------------------------------------------- session
NoState == [k \in {} |-> 0]

\* an initialisation without the test of line 57
InitState_Always(ss) ==
    Put(Put(Put(ss, "idx", 0), "score", 0), "responses", <<>>)

\* lines 57-60
InitState(ss) ==
    IF "idx" \notin DOMAIN ss
    THEN Put(Put(Put(ss, "idx", 0), "score", 0), "responses", <<>>)
    ELSE ss

\* a Restart that deletes no key
DeleteKeys_Nothing(ss) == ss

\* lines 149-150
DeleteKeys(ss) == [k \in DOMAIN ss \ {"idx", "score", "responses"} |-> ss[k]]

\* option keys of every column that is present, empty cells included
opt_keys_Present(q) == SelectSeq(<<"A", "B", "C", "D">>, LAMBDA k : k \in DOMAIN q)

opt_keys(q) == SelectSeq(<<"A", "B", "C", "D">>, LAMBDA k : Get(q, k, "") # "")

opts_dict(q) ==
    IF opt_keys(q) # <<>>
    THEN [k \in { opt_keys(q)[i] : i \in 1..Len(opt_keys(q)) } |-> q[k]]
    ELSE [k \in {"Yes", "No"} |-> k]

OptionList(q) == IF opt_keys(q) # <<>> THEN opt_keys(q) ELSE <<"Yes", "No">>

\* correctness by the option text alone
IsCorrect_TextOnly(q, choice_key) == opts_dict(q)[choice_key] = q.answer

IsCorrect(q, choice_key) ==
    LET ans             == q.answer
        selected_letter == choice_key
        selected_text   == opts_dict(q)[choice_key]
    IN  IF ans \in DOMAIN opts_dict(q)
        THEN selected_letter = ans
        ELSE selected_text = ans

\* a submission that takes a point for a wrong answer
Submit_Penalises(ss, q, choice_key) ==
    LET correct == IsCorrect(q, choice_key)
        entry   == [category  |-> Get(q, "category", ""),
                    attribute |-> Get(q, "attribute", ""),
                    l2        |-> Get(q, "l2-category", ""),
                    correct   |-> correct]
    IN  [ss EXCEPT !["responses"] = Append(@, entry),
                   !["score"]     = IF correct THEN @ + 1 ELSE @ - 1,
                   !["idx"]       = @ + 1]

\* a submission that records right answers only
Submit_RecordsOnlyCorrect(ss, q, choice_key) ==
    LET correct == IsCorrect(q, choice_key)
        entry   == [category  |-> Get(q, "category", ""),
                    attribute |-> Get(q, "attribute", ""),
                    l2        |-> Get(q, "l2-category", ""),
                    correct   |-> correct]
    IN  [ss EXCEPT !["responses"] = IF correct THEN Append(@, entry) ELSE @,
                   !["score"]     = IF correct THEN @ + 1 ELSE @,
                   !["idx"]       = @ + 1]

\* a submission that adds one to score whatever the answer
Submit_AlwaysScores(ss, q, choice_key) ==
    LET correct == IsCorrect(q, choice_key)
        entry   == [category  |-> Get(q, "category", ""),
                    attribute |-> Get(q, "attribute", ""),
                    l2        |-> Get(q, "l2-category", ""),
                    correct   |-> correct]
    IN  [ss EXCEPT !["responses"] = Append(@, entry),
                   !["score"]     = @ + 1,
                   !["idx"]       = @ + 1]

\* lines 102-120
Submit(ss, q, choice_key) ==
    LET correct == IsCorrect(q, choice_key)
        entry   == [category  |-> Get(q, "category", ""),
                    attribute |-> Get(q, "attribute", ""),
                    l2        |-> Get(q, "l2-category", ""),
                    correct   |-> correct]
    IN  [ss EXCEPT !["responses"] = Append(@, entry),
                   !["score"]     = IF correct THEN @ + 1 ELSE @,
                   !["idx"]       = @ + 1]

\* an aggregation whose "correct" column counts rows instead of summing them
RECURSIVE Agg_CorrectCount(_, _, _)
Agg_CorrectCount(rs, field, table) ==
    IF rs = <<>> THEN table
    ELSE LET r   == Head(rs)
             old == IF r[field] \in DOMAIN table THEN table[r[field]]
                    ELSE [correct |-> 0, total |-> 0]
         IN  Agg_CorrectCount(Tail(rs), field,
                 Put(table, r[field],
                     [correct |-> old.correct + 1, total |-> old.total + 1]))

\* df.groupby(field)["correct"].agg(correct="sum", total="count")
RECURSIVE Agg(_, _, _)
Agg(rs, field, table) ==
    IF rs = <<>> THEN table
    ELSE LET r   == Head(rs)
             old == IF r[field] \in DOMAIN table THEN table[r[field]]
                    ELSE [correct |-> 0, total |-> 0]
         IN  Agg(Tail(rs), field,
                 Put(table, r[field],
                     [correct |-> old.correct + (IF r.correct THEN 1 ELSE 0),
                      total   |-> old.total + 1]))

groupby(rs, field) == Agg(rs, field, NoState)

QuestionView(c, ss, q) ==
    [kind  |-> "question", form |-> ss.idx, score |-> ss.score,
     opts  |-> OptionList(q),
     image |-> IF IsFile(c, q["_img"]) THEN "shown" ELSE "error"]

\* lines 126-145; pd.DataFrame([]) has no column to group by
ReportView(ss, count) ==
    IF ss.responses = <<>>
    THEN [kind |-> "exception", score |-> ss.score, total |-> count, error |-> "KeyError"]
    ELSE [kind |-> "complete", score |-> ss.score, total |-> count,
          df_cat  |-> groupby(ss.responses, "category"),
          df_attr |-> groupby(ss.responses, "attribute"),
          df_l2   |-> groupby(ss.responses, "l2")]

NoEvent == [type |-> "none"]

\* a run without the try/except of lines 84-88 around Image.open
RECURSIVE Run_ImageRaises(_, _, _, _)
Run_ImageRaises(c, questions, ss0, e) ==
    LET ss  == InitState(ss0)
        idx == ss.idx
    IN  IF idx < Len(questions)
        THEN LET q         == questions[idx + 1]
                 submitted == e.type = "next" /\ e.form = idx
             IN  IF ~IsFile(c, q["_img"])
                 THEN [ss |-> ss, view |-> [kind |-> "exception", error |-> "Image.open"]]
                 ELSE [ss   |-> IF submitted THEN Submit(ss, q, e.choice) ELSE ss,
                       view |-> QuestionView(c, ss, q)]
        ELSE LET report == ReportView(ss, Len(questions)) IN
             IF report.kind = "complete" /\ e.type = "restart"
             THEN Run_ImageRaises(c, questions, DeleteKeys(ss), NoEvent)
             ELSE [ss |-> ss, view |-> report]

\* a run whose submit button is the same widget in every form
RECURSIVE Run_AnyForm(_, _, _, _)
Run_AnyForm(c, questions, ss0, e) ==
    LET ss  == InitState(ss0)
        idx == ss.idx
    IN  IF idx < Len(questions)
        THEN LET q         == questions[idx + 1]
                 submitted == e.type = "next"
                 choice    == IF e.choice \in DOMAIN opts_dict(q) THEN e.choice
                              ELSE OptionList(q)[1]
             IN  [ss   |-> IF submitted THEN Submit(ss, q, choice) ELSE ss,
                  view |-> QuestionView(c, ss, q)]
        ELSE LET report == ReportView(ss, Len(questions)) IN
             IF report.kind = "complete" /\ e.type = "restart"
             THEN Run_AnyForm(c, questions, DeleteKeys(ss), NoEvent)
             ELSE [ss |-> ss, view |-> report]

\* a run that handles a pressed Next before looking at idx < len(qs)
RECURSIVE Run_Clamped(_, _, _, _)
Run_Clamped(c, questions, ss0, e) ==
    LET ss  == InitState(ss0)
        at  == IF ss.idx < Len(questions) THEN ss.idx ELSE Len(questions) - 1
    IN  IF questions # <<>> /\ (ss.idx < Len(questions) \/ e.type = "next")
        THEN LET q         == questions[at + 1]
                 submitted == e.type = "next" /\ e.form = at
             IN  [ss   |-> IF submitted THEN Submit(ss, q, e.choice) ELSE ss,
                  view |-> QuestionView(c, [ss EXCEPT !["idx"] = at], q)]
        ELSE LET report == ReportView(ss, Len(questions)) IN
             IF report.kind = "complete" /\ e.type = "restart"
             THEN Run_Clamped(c, questions, DeleteKeys(ss), NoEvent)
             ELSE [ss |-> ss, view |-> report]

\* One run of main() over the loaded questions, triggered by widget event e.
\* The page is drawn from the state read at line 62, before a submission is
\* handled.  The submit button belongs to the form keyed quiz_form_{idx}: a
\* press on the form of another idx is no press of this run's button.
RECURSIVE Run(_, _, _, _)
Run(c, questions, ss0, e) ==
    LET ss  == InitState(ss0)
        idx == ss.idx
    IN  IF idx < Len(questions)
        THEN LET q         == questions[idx + 1]
                 submitted == e.type = "next" /\ e.form = idx
             IN  [ss   |-> IF submitted THEN Submit(ss, q, e.choice) ELSE ss,
                  view |-> QuestionView(c, ss, q)]
        ELSE LET report == ReportView(ss, Len(questions)) IN
             IF report.kind = "complete" /\ e.type = "restart"
             THEN Run(c, questions, DeleteKeys(ss), NoEvent)
             ELSE [ss |-> ss, view |-> report]

\* ------------------------------------------------------------------ actions
Unloaded == nread = 0 /\ valid = <<>> /\ branch = "none"

\* the session and the loader specifications draw the rows where they are used
NoFile == csv = <<>>

Idle == session_state = NoState /\ view = [kind |-> "none"] /\ ev = NoEvent

\* the session specification starts when load_questions has returned
Init ==
    /\ cwd = <<sep, "srv">>
    /\ pc = "run"
    /\ Unloaded /\ NoFile
    /\ \E file \in Csvs : qs = load_questions(file, cwd)
    /\ Idle

Script(e) ==
    /\ pc = "run"
    /\ LET r == Run(cwd, qs, session_state, e)
       IN  session_state' = r.ss /\ view' = r.view
    /\ ev' = e
    /\ UNCHANGED <<cwd, pc, csv, nread, valid, branch, qs>>

\* the browser opens the page
Open == view.kind = "none" /\ Script([type |-> "open"])

\* the user presses R (rerun) on a rendered page
Rerun == view.kind # "none" /\ Script([type |-> "rerun"])

\* the user picks an option of the form on the page and presses Next
ClickNext ==
    /\ view.kind = "question"
    /\ \E i \in 1..Len(view.opts) :
          Script([type |-> "next", form |-> view.form, choice |-> view.opts[i]])

\* the user presses Restart Quiz on the report
ClickRestart == view.kind = "complete" /\ Script([type |-> "restart"])

Next == Open \/ Rerun \/ ClickNext \/ ClickRestart

Spec == Init /\ [][Next]_vars

\* the loader specification: load_questions reading a CSV row by row
LoadInit ==
    /\ cwd \in Cwds
    /\ pc = "load"
    /\ Unloaded /\ NoFile
    /\ qs = <<>>
    /\ Idle

\* the loop body, tabulated over the working directories and the rows
IterationOf == [c \in Cwds |-> [r \in LoaderRows |-> Iteration(r, c)]]

\* lines 25-37, for the next row of the file
LoadRow ==
    /\ pc = "load"
    /\ nread < MaxRows
    /\ \E r \in LoaderRows :
          LET it == IterationOf[cwd][r]
          IN  valid' = valid \o it.rows /\ branch' = it.branch
    /\ nread' = nread + 1
    /\ UNCHANGED <<cwd, pc, csv, qs, session_state, view, ev>>

\* lines 39-46 and 53, at the end of the file
LoadReturn ==
    /\ pc = "load"
    /\ qs' = [i \in 1..Len(valid) |-> Rename(valid[i])]
    /\ pc' = "run"
    /\ UNCHANGED <<cwd, csv, nread, valid, branch, session_state, view, ev>>

LoadNext == LoadRow \/ LoadReturn

LoadSpec == LoadInit /\ [][LoadNext]_vars

\* the application specification: one CSV, read whole, then the session
DirPath     == <<"test", sep, "test">>
MissingPath == <<"test", sep, "test", sep, "test">>

AppRows ==
    { Q(GoodPath,    "A",   "cat", "dog", "", "", "overconcept",   "overconcept",   "inconsistency"),
      Q(GoodPath,    "dog", "cat", "dog", "", "", "inconsistency", "x",             "overconcept"),
      Q(GoodPath,    "B",   "cat", "dog", "", "", "color",         "inconsistency", ""),
      Q(DirPath,     "A",   "cat", "dog", "", "", "color",         "coherency",     "x"),
      Q(BadPath,     "A",   "cat", "dog", "", "", "color",         "overconcept",   "x"),
      Q(MissingPath, "A",   "cat", "dog", "", "", "shape",         "x",             "inconsistency") }

\* lines 20-21 have read the file
AppInit ==
    /\ cwd = <<sep, "srv">>
    /\ pc = "load"
    /\ csv \in BSeq(AppRows, MaxRows)
    /\ Unloaded
    /\ qs = <<>>
    /\ Idle

\* kept rows put at the front of the list
Collect_Front(v, it) == it.rows \o v

\* line 37
Collect(v, it) == v \o it.rows

\* lines 25-37, for the next record
ReadRow ==
    /\ pc = "load"
    /\ nread < Len(csv)
    /\ LET it == Iteration(csv[nread + 1], cwd)
       IN  valid' = Collect(valid, it) /\ branch' = it.branch
    /\ nread' = nread + 1
    /\ UNCHANGED <<cwd, pc, csv, qs, session_state, view, ev>>

\* lines 39-46 and 53, when the loop has ended
AppReturn == nread = Len(csv) /\ LoadReturn

\* a read error swallowed into an empty question list
LoadFail_Swallowed ==
    /\ pc = "load"
    /\ nread = 0
    /\ pc' = "run"
    /\ branch' = "read_error"
    /\ qs' = <<>>
    /\ UNCHANGED <<cwd, csv, nread, valid, session_state, view, ev>>

\* line 20: pd.read_csv raises on an unreadable or malformed file; nothing
\* catches it in load_questions or main, the run ends with the traceback
LoadFail ==
    /\ pc = "load"
    /\ nread = 0
    /\ pc' = "failed"
    /\ branch' = "read_error"
    /\ view' = [kind |-> "exception", error |-> "read_csv"]
    /\ UNCHANGED <<cwd, csv, nread, valid, qs, session_state, ev>>

AppNext == ReadRow \/ AppReturn \/ LoadFail \/ Open \/ Rerun \/ ClickNext \/ ClickRestart

AppSpec == AppInit /\ [][AppNext]_vars

\* the session with a user who keeps pressing Next while a form is shown
FairSpec == Spec /\ WF_vars(ClickNext)

\* ============================================================== properties
HasSession == "idx" \in DOMAIN session_state

total == Len(qs)

CountCorrect(rs) == Cardinality({ i \in 1..Len(rs) : rs[i].correct })

\* C1: once the session exists, the number of responses equals idx and score
\* equals the number of responses whose correct field is true.
C1_LengthAndScore ==
    HasSession =>
        /\ Len(session_state.responses) = session_state.idx
        /\ session_state.score = CountCorrect(session_state.responses)

\* a submission has just been processed, leaving one right and one wrong answer
C1_Witness ==
    /\ HasSession
    /\ ev.type = "next"
    /\ Len(session_state.responses) = 2
    /\ session_state.responses[1].correct
    /\ ~session_state.responses[2].correct
    /\ session_state.score = 1

\* C2: idx and the number of responses never exceed the number of questions,
\* and pressing Next once the last question is answered changes nothing of
\* the session.
C2_NeverPastTotal ==
    /\ [](HasSession => /\ session_state.idx <= total
                        /\ Len(session_state.responses) <= total)
    /\ [][(HasSession /\ session_state.idx = total /\ ev'.type = "next")
            => session_state' = session_state]_vars

\* Next was pressed on the form of the last question after it had been answered
C2_Witness ==
    /\ HasSession
    /\ total > 0
    /\ session_state.idx = total
    /\ ev.type = "next"
    /\ ev.form = total - 1
    /\ view.kind = "complete"

\* C3: a Restart leaves idx = 0, score = 0 and no response; the page then
\* shows question 0 of a non-empty list, and an empty list is Complete at once.
C3_RestartResets ==
    [][ev'.type = "restart" =>
          /\ session_state' = [idx |-> 0, score |-> 0, responses |-> <<>>]
          /\ total > 0 => /\ view'.kind = "question"
                          /\ view'.form = 0
                          /\ view'.score = 0
          /\ total = 0 => session_state'.idx = total]_vars

\* Restart was pressed after a session of two answers, one of them right
C3_Witness ==
    /\ ev.type = "restart"
    /\ total >= 2
    /\ session_state.idx = 0
    /\ session_state.responses = <<>>
    /\ view.kind = "question"

\* C4: with an empty question list every rendered page is the Complete report
\* with score 0 / 0, three empty tables and the Restart button.
C4_EmptyListCompletes ==
    (total = 0 /\ view.kind # "none") =>
        /\ view.kind = "complete"
        /\ view.score = 0 /\ view.total = 0
        /\ view.df_cat = NoState /\ view.df_attr = NoState /\ view.df_l2 = NoState

\* C5: in each of the three reports every label of the responses has a row,
\* whose pair is (right answers with that label, answers with that label),
\* and the totals of a report add up to the number of responses.
RECURSIVE SumTotals(_, _)
SumTotals(table, labels) ==
    IF labels = {} THEN 0
    ELSE LET l == CHOOSE x \in labels : TRUE
         IN  table[l].total + SumTotals(table, labels \ {l})

ReportIsCount(table, rs, field) ==
    /\ DOMAIN table = { rs[i][field] : i \in 1..Len(rs) }
    /\ \A l \in DOMAIN table :
          /\ table[l].total =
                Cardinality({ i \in 1..Len(rs) : rs[i][field] = l })
          /\ table[l].correct =
                Cardinality({ i \in 1..Len(rs) : rs[i][field] = l /\ rs[i].correct })
    /\ SumTotals(table, DOMAIN table) = Len(rs)

C5_GroupedReports ==
    view.kind = "complete" =>
        /\ ReportIsCount(view.df_cat,  session_state.responses, "category")
        /\ ReportIsCount(view.df_attr, session_state.responses, "attribute")
        /\ ReportIsCount(view.df_l2,   session_state.responses, "l2")

\* a report with a label answered twice, once right, and with the empty label
C5_Witness ==
    /\ view.kind = "complete"
    /\ \E l \in DOMAIN view.df_cat :
          view.df_cat[l].total = 2 /\ view.df_cat[l].correct = 1
    /\ "" \in DOMAIN view.df_attr

\* C6: a submission is right exactly when the chosen key equals the answer, if
\* the answer is one of the offered keys, and when the chosen option's text
\* equals the answer otherwise; it appends one response, adds one to score
\* exactly when right, and adds one to idx.
OfferedKeys(q) ==
    LET letters == { k \in {"A", "B", "C", "D"} : k \in DOMAIN q /\ q[k] # "" }
    IN  IF letters = {} THEN {"Yes", "No"} ELSE letters

DisplayText(q, k) == IF k \in {"Yes", "No"} THEN k ELSE q[k]

ExpectedCorrect(q, k) ==
    IF q.answer \in OfferedKeys(q) THEN k = q.answer ELSE DisplayText(q, k) = q.answer

Submitting ==
    /\ HasSession
    /\ view.kind = "question"
    /\ view.form = session_state.idx
    /\ ev'.type = "next"

C6_SubmissionScoring ==
    [][Submitting =>
          LET q  == qs[session_state.idx + 1]
              ok == ExpectedCorrect(q, ev'.choice)
              n  == Len(session_state.responses)
          IN  /\ Len(session_state'.responses) = n + 1
              /\ SubSeq(session_state'.responses, 1, n) = session_state.responses
              /\ session_state'.responses[n + 1].correct = ok
              /\ session_state'.score = session_state.score + (IF ok THEN 1 ELSE 0)
              /\ session_state'.idx = session_state.idx + 1]_vars

\* the answer "A" is not an offered key and the option whose text is "A" was chosen
C6_Witness ==
    /\ HasSession
    /\ ev.type = "next"
    /\ Len(session_state.responses) = ev.form + 1
    /\ qs[ev.form + 1].answer = "A"
    /\ "A" \notin OfferedKeys(qs[ev.form + 1])
    /\ ev.choice = "C"
    /\ session_state.responses[ev.form + 1].correct
    /\ session_state.score = 1

\* C7: every record kept by load_questions has a non-empty _img that names an
\* existing regular file.
C7_ImageIsExistingFile ==
    \A i \in 1..Len(valid) :
        /\ valid[i]["_img"] # <<>>
        /\ IsFile(cwd, valid[i]["_img"])

\* C8: the image of every kept record lies strictly inside the base
\* directory, by the normalised path and by the place the path leads to.
BaseLoc == Append(CwdLoc(cwd), data_dir)

StrictlyInside(loc, base) ==
    Len(loc) > Len(base) /\ SubSeq(loc, 1, Len(base)) = base

C8_InsideBaseDir ==
    \A i \in 1..Len(valid) :
        /\ StrictlyInside(Lookup(cwd, valid[i]["_img"]).at, BaseLoc)
        /\ StrictlyInside(NormComps(CwdLoc(cwd) \o Split(valid[i]["_img"]), <<>>),
                          BaseLoc)

\* a row with backslashes and a ".." segment was kept, then an escaping row dropped
C8_Witness ==
    /\ branch = "outside"
    /\ Len(valid) = 1
    /\ \E i, j \in 1..Len(valid[1].image_path) :
          valid[1].image_path[i] = ".." /\ valid[1].image_path[j] = "\\"

\* C9: the image of every kept record has a directory named "test" between
\* the base directory and the file.
C9_UnderTestOfBase ==
    \A i \in 1..Len(valid) :
        LET loc == Lookup(cwd, valid[i]["_img"]).at
        IN  \E n \in (Len(BaseLoc) + 1)..(Len(loc) - 1) : loc[n] = <<"test">>

\* C10: after every script run the page shows question idx while idx < total
\* and the report once idx = total.
C10_PageShowsCurrent ==
    (HasSession /\ total > 0) =>
        IF session_state.idx < total
        THEN view.kind = "question" /\ view.form = session_state.idx
        ELSE view.kind = "complete"

\* C11: the i-th response carries the labels of the i-th question, and a
\* response is only ever added at the end, for the question the page shows,
\* with the correctness of the option chosen on that page.
C11_AnsweredInOrder ==
    /\ [](HasSession =>
            \A i \in 1..Len(session_state.responses) :
                /\ i <= total
                /\ session_state.responses[i].category = Get(qs[i], "category", "")
                /\ session_state.responses[i].attribute = Get(qs[i], "attribute", "")
                /\ session_state.responses[i].l2 = Get(qs[i], "l2-category", ""))
    /\ [][(/\ HasSession
           /\ ev'.type # "restart"
           /\ session_state'.responses # session_state.responses)
          => LET n == Len(session_state.responses)
             IN  /\ ev'.type = "next"
                 /\ view.kind = "question"
                 /\ view.form = n
                 /\ Len(session_state'.responses) = n + 1
                 /\ SubSeq(session_state'.responses, 1, n) = session_state.responses
                 /\ session_state'.responses[n + 1].correct
                        = ExpectedCorrect(qs[n + 1], ev'.choice)
                 /\ session_state'.idx = n + 1]_vars

\* two questions with different categories have been answered
C11_Witness ==
    /\ HasSession
    /\ ev.type = "next"
    /\ Len(session_state.responses) = 2
    /\ session_state.responses[1].category # session_state.responses[2].category

\* C12: the options of a question are the letters A..D whose cell is present
\* and not empty, in that order, or Yes, No when there is no such letter.
Rank(k) == CHOOSE n \in 1..4 : <<"A", "B", "C", "D">>[n] = k

C13_CompleteIsFrozen ==
    [][(HasSession /\ session_state.idx = total /\ ev'.type # "restart")
          => session_state' = session_state]_vars

\* the report has been drawn again by a rerun
C13_Witness ==
    /\ HasSession
    /\ total > 0
    /\ session_state.idx = total
    /\ view.kind = "complete"
    /\ ev.type = "rerun"

\* C17: idx = total is reached with exactly total responses, and a session at
\* idx = 0 leads to idx = total when Next keeps being pressed.
C17_ReachesComplete ==
    /\ [](HasSession /\ session_state.idx = total
             => Len(session_state.responses) = total)
    /\ (HasSession /\ session_state.idx = 0)
           ~> (HasSession /\ session_state.idx = total)

\* the last of at least two questions has just been answered
C17_Witness ==
    /\ HasSession
    /\ total >= 2
    /\ session_state.idx = total
    /\ ev.type = "next"
    /\ view.kind = "question"

\* C18: Restart is pressed only when idx = total; while idx < total a step
\* never lowers idx or score and only appends to responses; 0 <= score <= idx.
C18_MonotoneInProgress ==
    /\ [](view.kind = "complete" => HasSession /\ session_state.idx = total)
    /\ [](HasSession => /\ 0 <= session_state.score
                        /\ session_state.score <= session_state.idx)
    /\ [][ev'.type = "restart" => HasSession /\ session_state.idx = total]_vars
    /\ [][(HasSession /\ session_state.idx < total)
            => /\ session_state'.idx >= session_state.idx
               /\ session_state'.score >= session_state.score
               /\ Len(session_state'.responses) >= Len(session_state.responses)
               /\ SubSeq(session_state'.responses, 1, Len(session_state.responses))
                      = session_state.responses]_vars

\* a wrong first answer, with questions still to come
C18_Witness ==
    /\ HasSession
    /\ session_state.idx = 1
    /\ session_state.idx < total
    /\ session_state.score = 0
    /\ ev.type = "next"

\* C14: in the returned records "overconcept" has become "appropriateness" and
\* "inconsistency" has become "coherency" in attribute and l2-category, and
\* nothing else differs from the rows kept by the loop, category included.
RawLabels == {"overconcept", "inconsistency"}

Renamed(old, new) ==
    /\ old = "overconcept" => new = "appropriateness"
    /\ old = "inconsistency" => new = "coherency"
    /\ old \notin RawLabels => new = old
    /\ new \notin RawLabels

C14_LabelsRenamed ==
    pc = "run" =>
        /\ Len(qs) = Len(valid)
        /\ \A i \in 1..Len(qs) :
              /\ DOMAIN qs[i] = DOMAIN valid[i]
              /\ Renamed(valid[i].attribute, qs[i].attribute)
              /\ Renamed(valid[i]["l2-category"], qs[i]["l2-category"])
              /\ \A k \in DOMAIN qs[i] \ {"attribute", "l2-category"} :
                    qs[i][k] = valid[i][k]

\* a returned record whose three labels were all raw keeps its category
C14_Witness ==
    /\ pc = "run"
    /\ \E i \in 1..Len(qs) :
          /\ valid[i].category = "overconcept"
          /\ valid[i].attribute = "overconcept"
          /\ valid[i]["l2-category"] = "inconsistency"
          /\ qs[i].category = "overconcept"

\* C15: a run that draws a question whose image cannot be opened still shows
\* the question with its options and the error, handles a pressed Next of
\* that form as for any question, and otherwise leaves the session as it is.
C15_ImageErrorIsInline ==
    [][(pc = "run" /\ ev'.type # "none")
        => LET fresh == ~HasSession \/ ev'.type = "restart"
               k     == IF fresh THEN 0 ELSE session_state.idx
               n     == IF fresh THEN 0 ELSE Len(session_state.responses)
           IN  (k < total /\ ~IsFile(cwd, qs[k + 1]["_img"])) =>
                 /\ view'.kind = "question"
                 /\ view'.form = k
                 /\ view'.image = "error"
                 /\ { view'.opts[i] : i \in 1..Len(view'.opts) } = OfferedKeys(qs[k + 1])
                 /\ IF ev'.type = "next" /\ view.form = k
                    THEN /\ Len(session_state'.responses) = n + 1
                         /\ session_state'.responses[n + 1].correct
                                = ExpectedCorrect(qs[k + 1], ev'.choice)
                         /\ session_state'.idx = k + 1
                    ELSE /\ session_state'.idx = k
                         /\ Len(session_state'.responses) = n
                         /\ ~fresh => session_state' = session_state]_vars

\* a question whose image is a directory was answered right from its page
C15_Witness ==
    /\ HasSession
    /\ ev.type = "next"
    /\ view.kind = "question"
    /\ view.image = "error"
    /\ view.form = ev.form
    /\ Len(session_state.responses) = ev.form + 1
    /\ session_state.responses[ev.form + 1].correct

\* C16: a dropped row ends neither the loop nor the run, while a read error
\* ends load_questions with no question list and no session state.
C16_ReadErrorIsFatal ==
    /\ [](branch = "read_error" =>
            /\ pc = "failed"
            /\ qs = <<>> /\ valid = <<>>
            /\ ~HasSession
            /\ view.kind = "exception")
    /\ [][(pc = "load" /\ nread' = nread + 1
              /\ branch' \in {"outside", "notest", "missing"})
            => valid' = valid /\ pc' = "load" /\ view' = view]_vars

\* the file could not be read
C16_Witness ==
    /\ pc = "failed"
    /\ branch = "read_error"
    /\ view.kind = "exception"

\* C19: the rows kept so far are the rows read so far whose own image_path is
\* accepted in the working directory, each once and in the order of the file.
AcceptsPath(p, c) == Iteration([image_path |-> p], c).branch = "kept"

Increasing(f) == \A i, j \in DOMAIN f : i < j => f[i] < f[j]

C19_OrderedSubsequence ==
    \E f \in [1..Len(valid) -> 1..nread] :
        /\ Increasing(f)
        /\ { f[j] : j \in 1..Len(valid) }
               = { i \in 1..nread : AcceptsPath(csv[i].image_path, cwd) }
        /\ \A j \in 1..Len(valid) :
              /\ \A k \in DOMAIN csv[f[j]] : valid[j][k] = csv[f[j]][k]
              /\ pc = "run" => qs[j].image_path = csv[f[j]].image_path
        /\ pc = "run" => Len(qs) = Len(valid)

\* two different rows of the file were kept
C19_Witness ==
    /\ pc = "run"
    /\ Len(csv) = 2
    /\ Len(qs) = 2
    /\ csv[1] # csv[2]

====
